---- MODULE Spec2Model ----
(***************************************************************************)
(* Model of the Harvest backup tool (TypeScript variant):                  *)
(*   HarvestClient.fetchEndpoint / findResourceKey / hasNextPage / delay   *)
(*   BackupService.backupAll / backupAccount / backupEndpoint / saveJson   *)
(* The HTTP server is a scripted mock (as nock in the unit tests): a       *)
(* request for page k of a fetchEndpoint call is answered by the k-th      *)
(* planned response; a request with no planned response left fails at      *)
(* network level.                                                          *)
(***************************************************************************)
EXTENDS Integers, Sequences, FiniteSets, TLC

VARIABLES
    pc,         \* position of the driver (backupAll / backupAccount / backupEndpoint)
    accounts,   \* accounts returned by getAccounts
    ai,         \* index of the account being backed up
    ei,         \* index in the catalog of the endpoint being backed up
    client,     \* Harvest-Account-Id of the current account client (0: none)
    dirs,       \* account directories on disk
    acctFiles,  \* accounts whose account.json is on disk
    files,      \* endpoint JSON files on disk: <<account, endpoint>> -> file
    out,        \* outcome lines logged by backupEndpoint, in order
    calls,      \* fetchEndpoint invocations made by backupEndpoint, in order
    rejectErr,  \* the error backupAll rejected with
    fendpoint,  \* fetchEndpoint: the endpoint argument
    script,     \* the mock server's planned responses for this call
    nresp,      \* responses received in this call
    reqs,       \* page requests issued in this call: [page, per_page, wait]
    results,    \* fetchEndpoint: results
    page,       \* fetchEndpoint: page
    hasMore,    \* fetchEndpoint: hasMore
    fpc,        \* position inside fetchEndpoint
    fret,       \* how the fetchEndpoint call completed
    slept,      \* milliseconds slept in delay() since the last request
    got,        \* what each fetchEndpoint call of the run completed with, in order
    exitCode,   \* exit code of the process (NoExit while it runs)
    manifest,   \* artifact manifest: artifact id -> digest of the last-written bytes
    artFiles,   \* artifact files on disk: artifact id -> content
    mwlog,      \* the maybe_write calls made, in order
    nameIn,     \* naming: the account id, account name and endpoint path given
    nameOut,    \* naming: the directory name and file name built
    cyclic,     \* the mock server answers a page again when it is requested again
    orig        \* the locals of a call of the original (inline) fetchEndpoint

vars == <<pc, accounts, ai, ei, client, dirs, acctFiles, files, out, calls,
          rejectErr, fendpoint, script, nresp, reqs, results, page, hasMore,
          fpc, fret, slept, got, exitCode, manifest, artFiles, mwlog,
          nameIn, nameOut, cyclic, orig>>

fetchVars == <<fendpoint, script, nresp, reqs, results, page, hasMore, fpc,
               fret, slept>>

runVars == <<pc, accounts, ai, ei, client, dirs, acctFiles, files, out,
             calls, rejectErr, got, exitCode>>

\* The state of the artifact writer and of the naming helpers, the kind of
\* mock server, and the original fetchEndpoint.
toolVars == <<manifest, artFiles, mwlog, nameIn, nameOut, cyclic, orig>>

(***************************************************************************)
(* Bounds of the model                                                     *)
(***************************************************************************)
MaxAccounts == 2
MaxPages == 3
MaxItems == 2
MaxRetryAfter == 2
MaxRequests == 5

(***************************************************************************)
(* Program constants                                                       *)
(***************************************************************************)
RATE_LIMIT_DELAY == 100
PER_PAGE == 100

\* error.response?.status of a request that got no response (printed "undefined")
NoStatus == 0

\* The process has not exited.
NoExit == -1

\* The endpoint catalog, shortened to two of its entries (one nested path).
HARVEST_ENDPOINTS == <<"users", "users/me">>

Endpoints == {HARVEST_ENDPOINTS[i] : i \in 1..Len(HARVEST_ENDPOINTS)}

AccountIds == 1..MaxAccounts

(***************************************************************************)
(* Response bodies                                                         *)
(***************************************************************************)
\* A top-level key of a response body.  isArray/items: an array value;
\* next: the "next" member of an object value ("undefined" when it has none);
\* num: a number value.
Field(key, isArray, items, next, num) ==
    [key |-> key, isArray |-> isArray, items |-> items, next |-> next, num |-> num]

\* Record j of the k-th planned response.
RecordId(k, j) == 10 * k + j

\* A Harvest page body: the resource array, next_page and links.
PageBody(k, n, next) ==
    [fields |-> << Field("users", TRUE, [j \in 1..n |-> RecordId(k, j)], "undefined", 0),
                   Field("next_page", FALSE, <<>>, "undefined",
                         IF next = "url" THEN k + 1 ELSE 0),
                   Field("links", FALSE, <<>>, next, 0) >>]

NoBody == [fields |-> <<>>]

Response(status, retryAfter, data) ==
    [status |-> status, retryAfter |-> retryAfter, data |-> data]

\* What a request gets when no planned response is left, and a planned
\* network-level failure: no response at all.
NetworkFailure == Response(NoStatus, 0, NoBody)

\* The responses a script may hold at one position.
Choices(maxItems) ==
    {[status |-> 200, n |-> n, next |-> x, retryAfter |-> 0] :
        n \in 0..maxItems, x \in {"undefined", "null", "url"}}
    \cup {[status |-> st, n |-> 0, next |-> "undefined", retryAfter |-> 0] :
        st \in {404, 401, 403, 400, 500, NoStatus}}
    \cup {[status |-> 429, n |-> 0, next |-> "undefined", retryAfter |-> s] :
        s \in 1..MaxRetryAfter}

\* A response after which the protocol of the specification goes on: a page
\* with a next cue, a rate-limit rejection, a network failure.
GoesOn(c) ==
    \/ c.status = 200 /\ c.next = "url"
    \/ c.status = 429
    \/ c.status = NoStatus

Materialise(k, c) ==
    IF c.status = 200
    THEN Response(200, 0, PageBody(k, c.n, c.next))
    ELSE Response(c.status, c.retryAfter, NoBody)

Scripts(maxLen, maxItems) ==
    LET plans == UNION {[1..l -> Choices(maxItems)] : l \in 1..maxLen}
        ok(p) == \A k \in 1..(Len(p) - 1) : GoesOn(p[k])
    IN  {[k \in 1..Len(p) |-> Materialise(k, p[k])] : p \in {q \in plans : ok(q)}}

Ok(n, next) == [status |-> 200, n |-> n, next |-> next, retryAfter |-> 0]
Fail(st) == [status |-> st, n |-> 0, next |-> "undefined", retryAfter |-> 0]

Plan(p) == [k \in 1..Len(p) |-> Materialise(k, p[k])]

\* The server behaviours of a whole run: one of these per (account, endpoint).
RunScripts ==
    { Plan(<<Ok(0, "undefined")>>),
      Plan(<<Ok(1, "url"), Ok(1, "null")>>),
      Plan(<<Ok(1, "url"), Fail(500)>>),
      Plan(<<Fail(404)>>),
      Plan(<<Fail(401)>>),
      Plan(<<Fail(NoStatus)>>) }

(***************************************************************************)
(* Errors                                                                  *)
(***************************************************************************)
\* Every error of the program is a plain Error; msg is the fixed part of its
\* message, endpoint and status the interpolated parts.
Err(msg, endpoint, status) ==
    [name |-> "Error", msg |-> msg, endpoint |-> endpoint, status |-> status]

NoError == [name |-> "", msg |-> "", endpoint |-> "", status |-> NoStatus]

\* Mutant: the message leaves the status out.
FetchError_noStatus(endpoint, status) == Err("Failed to fetch", endpoint, NoStatus)

\* new Error(`Failed to fetch ${endpoint}: ${status} ${statusText}`)
FetchError(endpoint, status) == Err("Failed to fetch", endpoint, status)

\* new Error(`Failed to fetch accounts: ${status} ${statusText}`)
AccountsError(status) == Err("Failed to fetch accounts", "", status)

\* The error a failed fs.mkdir / fs.writeFile rejects with.
FsError(op) == Err(op, "", NoStatus)

(***************************************************************************)
(* HarvestClient helpers                                                   *)
(***************************************************************************)
\* Object.keys(data).find(key => Array.isArray(data[key]) && key !== 'links'):
\* the position of the first such key, 0 when there is none (undefined).
findResourceKey(data) ==
    LET hits == {i \in 1..Len(data.fields) :
                    data.fields[i].isArray /\ data.fields[i].key # "links"}
    IN  IF hits = {} THEN 0
        ELSE CHOOSE i \in hits : \A j \in hits : i <= j

\* Mutant: only data.links?.next !== undefined is tested.
hasNextPage_nullCounts(data) ==
    \E i \in 1..Len(data.fields) :
        /\ data.fields[i].key = "links"
        /\ data.fields[i].next # "undefined"

\* data.links?.next !== undefined && data.links?.next !== null
hasNextPage(data) ==
    \E i \in 1..Len(data.fields) :
        /\ data.fields[i].key = "links"
        /\ data.fields[i].next \notin {"undefined", "null"}

\* Mutant: the page is put in front of the accumulated records.
PushPage_prepends(res, data) ==
    LET resourceKey == findResourceKey(data)
    IN  IF resourceKey # 0 THEN data.fields[resourceKey].items \o res ELSE res

\* results.push(...data[resourceKey]) when a resource key was found
PushPage(res, data) ==
    LET resourceKey == findResourceKey(data)
    IN  IF resourceKey # 0 THEN res \o data.fields[resourceKey].items ELSE res

\* Mutant: no status breaks out of the loop, 404 is rethrown like the rest.
IsNotFound_never(status) == FALSE

\* Mutant: 403 is taken for "not available for this account", like 404.
IsNotFound_orForbidden(status) == status \in {404, 403}

\* The catch's test for "endpoint doesn't exist for this account".
IsNotFound(status) == status = 404

Pending == [kind |-> "pending", data |-> <<>>, err |-> NoError]
Returned(data) == [kind |-> "value", data |-> data, err |-> NoError]
Thrown(err) == [kind |-> "error", data |-> <<>>, err |-> err]

\* The response planned for page p; none when the server has no such page.
ResponseAt(p) ==
    IF p \in 1..Len(script) THEN script[p] ELSE NetworkFailure

\* The response to the request in flight: the one planned for the page it
\* asks for.  A page that was requested before is answered again only by a
\* server that answers again (else the planned response is used up).
CurrentResponse ==
    LET p == reqs[Len(reqs)].page
        used == \E i \in 1..(Len(reqs) - 1) : reqs[i].page = p
    IN  IF cyclic \/ ~used THEN ResponseAt(p) ELSE NetworkFailure

(***************************************************************************)
(* HarvestClient.fetchEndpoint                                             *)
(***************************************************************************)
\* Entry: results = [], page = 1, hasMore = true.
fetchEndpoint(endpoint, plan) ==
    /\ fendpoint' = endpoint
    /\ script' = plan
    /\ nresp' = 0
    /\ reqs' = <<>>
    /\ results' = <<>>
    /\ page' = 1
    /\ hasMore' = TRUE
    /\ fpc' = "loop"
    /\ fret' = Pending
    /\ UNCHANGED slept

\* while (hasMore): accountClient.get(endpoint, {params: {page, per_page}})
FetchRequest ==
    /\ fpc = "loop"
    /\ hasMore
    /\ Len(reqs) < MaxRequests
    /\ reqs' = Append(reqs, [page |-> page, per_page |-> PER_PAGE, wait |-> slept])
    /\ slept' = 0
    /\ fpc' = "await_get"
    /\ UNCHANGED <<fendpoint, script, nresp, results, page, hasMore, fret>>
    /\ UNCHANGED runVars
    /\ UNCHANGED toolVars

\* Mutant: the page counter is not advanced.
FetchPage_samePage ==
    /\ fpc = "await_get"
    /\ CurrentResponse.status = 200
    /\ nresp' = nresp + 1
    /\ results' = PushPage(results, CurrentResponse.data)
    /\ hasMore' = hasNextPage(CurrentResponse.data)
    /\ page' = page
    /\ fpc' = "await_delay"
    /\ UNCHANGED <<fendpoint, script, reqs, fret, slept>>
    /\ UNCHANGED runVars
    /\ UNCHANGED toolVars

\* Mutant: the page the links.next URL names is requested next.
FetchPage_followsLink ==
    /\ fpc = "await_get"
    /\ CurrentResponse.status = 200
    /\ nresp' = nresp + 1
    /\ results' = PushPage(results, CurrentResponse.data)
    /\ hasMore' = hasNextPage(CurrentResponse.data)
    /\ page' = LET links == {i \in 1..Len(CurrentResponse.data.fields) :
                                CurrentResponse.data.fields[i].key = "links"
                                /\ CurrentResponse.data.fields[i].num > 0}
               IN  IF links = {} THEN page + 1
                   ELSE CurrentResponse.data.fields[CHOOSE i \in links : TRUE].num
    /\ fpc' = "await_delay"
    /\ UNCHANGED <<fendpoint, script, reqs, fret, slept>>
    /\ UNCHANGED runVars
    /\ UNCHANGED toolVars

\* Mutant: a page without records is taken for the last page.
FetchPage_stopsOnEmpty ==
    /\ fpc = "await_get"
    /\ CurrentResponse.status = 200
    /\ nresp' = nresp + 1
    /\ results' = PushPage(results, CurrentResponse.data)
    /\ hasMore' = (hasNextPage(CurrentResponse.data) /\ results' # results)
    /\ page' = page + 1
    /\ fpc' = "await_delay"
    /\ UNCHANGED <<fendpoint, script, reqs, fret, slept>>
    /\ UNCHANGED runVars
    /\ UNCHANGED toolVars

\* The get resolved (2xx): collect the page, advance, start the delay.
FetchPage ==
    /\ fpc = "await_get"
    /\ CurrentResponse.status = 200
    /\ nresp' = nresp + 1
    /\ results' = PushPage(results, CurrentResponse.data)
    /\ hasMore' = hasNextPage(CurrentResponse.data)
    /\ page' = page + 1
    /\ fpc' = "await_delay"
    /\ UNCHANGED <<fendpoint, script, reqs, fret, slept>>
    /\ UNCHANGED runVars
    /\ UNCHANGED toolVars

\* await this.delay(API_CONFIG.RATE_LIMIT_DELAY) is over.
FetchDelay ==
    /\ fpc = "await_delay"
    /\ slept' = slept + RATE_LIMIT_DELAY
    /\ fpc' = "loop"
    /\ UNCHANGED <<fendpoint, script, nresp, reqs, results, page, hasMore, fret>>
    /\ UNCHANGED runVars
    /\ UNCHANGED toolVars

\* Mutant: any rejected get ends the loop and returns what was collected.
FetchCatch_returnsPartial ==
    /\ fpc = "await_get"
    /\ CurrentResponse.status # 200
    /\ nresp' = nresp + 1
    /\ fret' = Returned(results)
    /\ fpc' = "done"
    /\ UNCHANGED <<fendpoint, script, reqs, results, page, hasMore, slept>>
    /\ UNCHANGED runVars
    /\ UNCHANGED toolVars

\* The get rejected: 404 breaks out of the loop and returns results; any
\* other axios error is rethrown as a new Error.
FetchCatch ==
    /\ fpc = "await_get"
    /\ CurrentResponse.status # 200
    /\ nresp' = nresp + 1
    /\ fret' = IF IsNotFound(CurrentResponse.status)
               THEN Returned(results)
               ELSE Thrown(FetchError(fendpoint, CurrentResponse.status))
    /\ fpc' = "done"
    /\ UNCHANGED <<fendpoint, script, reqs, results, page, hasMore, slept>>
    /\ UNCHANGED runVars
    /\ UNCHANGED toolVars

\* The loop ended with hasMore false: return results.
FetchReturn ==
    /\ fpc = "loop"
    /\ ~hasMore
    /\ fret' = Returned(results)
    /\ fpc' = "done"
    /\ UNCHANGED <<fendpoint, script, nresp, reqs, results, page, hasMore, slept>>
    /\ UNCHANGED runVars
    /\ UNCHANGED toolVars

(***************************************************************************)
(* A direct call of fetchEndpoint, as the client's unit tests make it      *)
(***************************************************************************)
IdleFetch ==
    /\ fendpoint = ""
    /\ script = <<>>
    /\ nresp = 0
    /\ reqs = <<>>
    /\ results = <<>>
    /\ page = 1
    /\ hasMore = TRUE
    /\ fpc = "idle"
    /\ fret = Pending
    /\ slept = 0

\* The original fetchEndpoint has not been called.
IdleOrig ==
    [fpc |-> "idle", nresp |-> 0, reqs |-> <<>>, results |-> <<>>, page |-> 1,
     hasMore |-> TRUE, fret |-> Pending, slept |-> 0]

\* Nothing of the artifact writer and of the naming helpers is in use, the
\* server does not repeat itself, the original fetchEndpoint is not called.
IdleTools ==
    /\ manifest = <<>>
    /\ artFiles = <<>>
    /\ mwlog = <<>>
    /\ nameIn = <<>>
    /\ nameOut = <<>>
    /\ cyclic = FALSE
    /\ orig = IdleOrig

NoFile == [exists |-> FALSE, content |-> <<>>]
File(content) == [exists |-> TRUE, content |-> content]

InitFetch ==
    /\ pc = "unit"
    /\ accounts = <<>>
    /\ ai = 0
    /\ ei = 0
    /\ client = 123
    /\ dirs = {}
    /\ acctFiles = {}
    /\ files = [f \in AccountIds \X Endpoints |-> NoFile]
    /\ out = <<>>
    /\ calls = <<>>
    /\ rejectErr = NoError
    /\ got = <<>>
    /\ exitCode = NoExit
    /\ IdleFetch
    /\ IdleTools

UnitCall ==
    /\ pc = "unit"
    /\ fpc = "idle"
    /\ \E e \in Endpoints,
          plan \in Scripts(MaxPages, MaxItems) :
            fetchEndpoint(e, plan)
    /\ UNCHANGED runVars
    /\ UNCHANGED toolVars

NextFetch ==
    \/ UnitCall
    \/ FetchRequest
    \/ FetchPage
    \/ FetchDelay
    \/ FetchCatch
    \/ FetchReturn

SpecFetch == InitFetch /\ [][NextFetch]_vars

(***************************************************************************)
(* BackupService                                                           *)
(***************************************************************************)
\* A line backupEndpoint logs when it is done with an endpoint:
\* "Saved n record(s)", "No data found" or "Skipped: <message>".
Line(account, endpoint, kind, count, err) ==
    [account |-> account, endpoint |-> endpoint, kind |-> kind,
     count |-> count, err |-> err]

\* The status of the last response of the fetchEndpoint call.
LastStatus ==
    IF nresp >= 1 /\ nresp <= Len(script) THEN script[nresp].status ELSE NoStatus

\* What the finished fetchEndpoint call completed with.
Completed == [ret |-> fret, status |-> LastStatus]

\* The locals of a finished fetchEndpoint call are gone.
FetchForgotten ==
    /\ fendpoint' = ""
    /\ script' = <<>>
    /\ nresp' = 0
    /\ reqs' = <<>>
    /\ results' = <<>>
    /\ page' = 1
    /\ hasMore' = TRUE
    /\ fpc' = "idle"
    /\ fret' = Pending
    /\ UNCHANGED slept

\* Mutant: after a failed fetch the rest of the account's endpoints is left out.
Advance_leavesAccountOnError ==
    IF ei < Len(HARVEST_ENDPOINTS) /\ fret.kind # "error"
    THEN /\ ei' = ei + 1
         /\ pc' = "endpoint"
         /\ UNCHANGED <<ai, client>>
    ELSE IF ai < Len(accounts)
    THEN /\ ai' = ai + 1
         /\ pc' = "mkdir"
         /\ UNCHANGED <<ei, client>>
    ELSE /\ pc' = "resolved"
         /\ UNCHANGED <<ai, ei, client>>

\* backupEndpoint returned: the next endpoint of the catalog, else the next
\* account, else backupAll resolves.
Advance ==
    IF ei < Len(HARVEST_ENDPOINTS)
    THEN /\ ei' = ei + 1
         /\ pc' = "endpoint"
         /\ UNCHANGED <<ai, client>>
    ELSE IF ai < Len(accounts)
    THEN /\ ai' = ai + 1
         /\ pc' = "mkdir"
         /\ UNCHANGED <<ei, client>>
    ELSE /\ pc' = "resolved"
         /\ UNCHANGED <<ai, ei, client>>

\* backupAll: getAccounts resolved.
GetAccounts ==
    /\ pc = "start"
    /\ \E k \in 0..MaxAccounts :
        /\ accounts' = [i \in 1..k |-> i]
        /\ IF k = 0
           THEN pc' = "resolved" /\ ai' = ai
           ELSE pc' = "mkdir" /\ ai' = 1
    /\ UNCHANGED <<ei, client, dirs, acctFiles, files, out, calls, rejectErr>>
    /\ UNCHANGED fetchVars
    /\ UNCHANGED <<got, exitCode>>
    /\ UNCHANGED toolVars

\* Mutant: backupAll catches the error of getAccounts, logs it and resolves.
GetAccountsFailed_swallowed ==
    /\ pc = "start"
    /\ \E st \in {401, NoStatus} : rejectErr' = AccountsError(st)
    /\ pc' = "resolved"
    /\ UNCHANGED <<accounts, ai, ei, client, dirs, acctFiles, files, out, calls>>
    /\ UNCHANGED fetchVars
    /\ UNCHANGED <<got, exitCode>>
    /\ UNCHANGED toolVars

\* backupAll: getAccounts rejected (an HTTP status, or no response).
GetAccountsFailed ==
    /\ pc = "start"
    /\ \E st \in {401, NoStatus} : rejectErr' = AccountsError(st)
    /\ pc' = "rejected"
    /\ UNCHANGED <<accounts, ai, ei, client, dirs, acctFiles, files, out, calls>>
    /\ UNCHANGED fetchVars
    /\ UNCHANGED <<got, exitCode>>
    /\ UNCHANGED toolVars

\* backupAccount: await fs.mkdir(accountDir, {recursive: true})
MkdirAccount ==
    /\ pc = "mkdir"
    /\ \/ /\ dirs' = dirs \cup {accounts[ai]}
          /\ pc' = "saveAccount"
          /\ UNCHANGED rejectErr
       \/ /\ rejectErr' = FsError("mkdir")
          /\ pc' = "rejected"
          /\ UNCHANGED dirs
    /\ UNCHANGED <<accounts, ai, ei, client, acctFiles, files, out, calls>>
    /\ UNCHANGED fetchVars
    /\ UNCHANGED <<got, exitCode>>
    /\ UNCHANGED toolVars

\* Mutant: backupAccount goes on to the client without writing account.json.
SaveAccountJson_notWritten ==
    /\ pc = "saveAccount"
    /\ pc' = "client"
    /\ UNCHANGED <<accounts, ai, ei, client, dirs, acctFiles, files, out, calls, rejectErr>>
    /\ UNCHANGED fetchVars
    /\ UNCHANGED <<got, exitCode>>
    /\ UNCHANGED toolVars

\* backupAccount: await this.saveJson(path.join(accountDir, 'account.json'), account)
SaveAccountJson ==
    /\ pc = "saveAccount"
    /\ \/ /\ acctFiles' = acctFiles \cup {accounts[ai]}
          /\ pc' = "client"
          /\ UNCHANGED rejectErr
       \/ /\ rejectErr' = FsError("writeFile")
          /\ pc' = "rejected"
          /\ UNCHANGED acctFiles
    /\ UNCHANGED <<accounts, ai, ei, client, dirs, files, out, calls>>
    /\ UNCHANGED fetchVars
    /\ UNCHANGED <<got, exitCode>>
    /\ UNCHANGED toolVars

\* Mutant: the client of the first account is used for every account.
CreateAccountClient_firstAccount ==
    /\ pc = "client"
    /\ client' = accounts[1]
    /\ ei' = 1
    /\ pc' = "endpoint"
    /\ UNCHANGED <<accounts, ai, dirs, acctFiles, files, out, calls, rejectErr>>
    /\ UNCHANGED fetchVars
    /\ UNCHANGED <<got, exitCode>>
    /\ UNCHANGED toolVars

\* backupAccount: const accountClient = this.client.createAccountClient(account.id)
CreateAccountClient ==
    /\ pc = "client"
    /\ client' = accounts[ai]
    /\ ei' = 1
    /\ pc' = "endpoint"
    /\ UNCHANGED <<accounts, ai, dirs, acctFiles, files, out, calls, rejectErr>>
    /\ UNCHANGED fetchVars
    /\ UNCHANGED <<got, exitCode>>
    /\ UNCHANGED toolVars

\* Mutant: the await is missing, the loop goes on while the fetch runs.
BackupEndpoint_notAwaited ==
    /\ pc = "endpoint"
    /\ calls' = Append(calls, <<client, HARVEST_ENDPOINTS[ei]>>)
    /\ \E plan \in RunScripts : fetchEndpoint(HARVEST_ENDPOINTS[ei], plan)
    /\ Advance
    /\ UNCHANGED <<accounts, dirs, acctFiles, files, out, rejectErr>>
    /\ UNCHANGED <<got, exitCode>>
    /\ UNCHANGED toolVars

\* backupEndpoint: const data = await this.client.fetchEndpoint(accountClient, endpoint)
BackupEndpoint ==
    /\ pc = "endpoint"
    /\ calls' = Append(calls, <<client, HARVEST_ENDPOINTS[ei]>>)
    /\ \E plan \in RunScripts : fetchEndpoint(HARVEST_ENDPOINTS[ei], plan)
    /\ pc' = "fetch"
    /\ UNCHANGED <<accounts, ai, ei, client, dirs, acctFiles, files, out, rejectErr>>
    /\ UNCHANGED <<got, exitCode>>
    /\ UNCHANGED toolVars

\* Mutant: the data.length > 0 test is gone, an empty file is written.
EndpointEmpty_writesFile ==
    /\ pc = "fetch"
    /\ fpc = "done"
    /\ fret.kind = "value"
    /\ Len(fret.data) = 0
    /\ files' = [files EXCEPT ![<<accounts[ai], HARVEST_ENDPOINTS[ei]>>] = File(fret.data)]
    /\ out' = Append(out, Line(accounts[ai], HARVEST_ENDPOINTS[ei], "saved", 0, NoError))
    /\ Advance
    /\ got' = Append(got, Completed)
    /\ FetchForgotten
    /\ UNCHANGED exitCode
    /\ UNCHANGED toolVars
    /\ UNCHANGED <<accounts, dirs, acctFiles, calls, rejectErr>>

\* backupEndpoint: the fetch returned no record: "No data found".
EndpointEmpty ==
    /\ pc = "fetch"
    /\ fpc = "done"
    /\ fret.kind = "value"
    /\ Len(fret.data) = 0
    /\ out' = Append(out, Line(accounts[ai], HARVEST_ENDPOINTS[ei], "empty", 0, NoError))
    /\ Advance
    /\ got' = Append(got, Completed)
    /\ FetchForgotten
    /\ UNCHANGED exitCode
    /\ UNCHANGED toolVars
    /\ UNCHANGED <<accounts, dirs, acctFiles, files, calls, rejectErr>>

\* backupEndpoint: the fetch returned records: the file is written, or the
\* write fails and the catch logs it.
EndpointSave ==
    /\ pc = "fetch"
    /\ fpc = "done"
    /\ fret.kind = "value"
    /\ Len(fret.data) > 0
    /\ \/ /\ files' = [files EXCEPT ![<<accounts[ai], HARVEST_ENDPOINTS[ei]>>] = File(fret.data)]
          /\ out' = Append(out, Line(accounts[ai], HARVEST_ENDPOINTS[ei], "saved",
                                     Len(fret.data), NoError))
       \/ /\ UNCHANGED files
          /\ out' = Append(out, Line(accounts[ai], HARVEST_ENDPOINTS[ei], "skipped",
                                     0, FsError("writeFile")))
    /\ Advance
    /\ got' = Append(got, Completed)
    /\ FetchForgotten
    /\ UNCHANGED exitCode
    /\ UNCHANGED toolVars
    /\ UNCHANGED <<accounts, dirs, acctFiles, calls, rejectErr>>

\* Mutant: backupEndpoint has no catch, the error of the fetch propagates.
EndpointCatch_rethrows ==
    /\ pc = "fetch"
    /\ fpc = "done"
    /\ fret.kind = "error"
    /\ rejectErr' = fret.err
    /\ pc' = "rejected"
    /\ got' = Append(got, Completed)
    /\ FetchForgotten
    /\ UNCHANGED exitCode
    /\ UNCHANGED toolVars
    /\ UNCHANGED <<accounts, ai, ei, client, dirs, acctFiles, files, out, calls>>

\* Mutant: the catch rethrows a 401/403 failure and logs the others.
EndpointCatch_authFatal ==
    /\ pc = "fetch"
    /\ fpc = "done"
    /\ fret.kind = "error"
    /\ IF fret.err.status \in {401, 403}
       THEN /\ rejectErr' = fret.err
            /\ pc' = "rejected"
            /\ UNCHANGED <<ai, ei, client, out>>
       ELSE /\ out' = Append(out, Line(accounts[ai], HARVEST_ENDPOINTS[ei], "skipped", 0, fret.err))
            /\ Advance
            /\ UNCHANGED rejectErr
    /\ got' = Append(got, Completed)
    /\ FetchForgotten
    /\ UNCHANGED exitCode
    /\ UNCHANGED toolVars
    /\ UNCHANGED <<accounts, dirs, acctFiles, files, calls>>

\* backupEndpoint: the fetch threw: catch (error) logs "Skipped: <message>".
EndpointCatch ==
    /\ pc = "fetch"
    /\ fpc = "done"
    /\ fret.kind = "error"
    /\ out' = Append(out, Line(accounts[ai], HARVEST_ENDPOINTS[ei], "skipped", 0, fret.err))
    /\ Advance
    /\ got' = Append(got, Completed)
    /\ FetchForgotten
    /\ UNCHANGED exitCode
    /\ UNCHANGED toolVars
    /\ UNCHANGED <<accounts, dirs, acctFiles, files, calls, rejectErr>>

\* index.ts: await fs.mkdir(output, {recursive: true}), then backupAll().
MainMkdir ==
    /\ pc = "main"
    /\ \/ /\ pc' = "start"
          /\ UNCHANGED rejectErr
       \/ /\ rejectErr' = FsError("mkdir")
          /\ pc' = "aborted"
    /\ UNCHANGED <<accounts, ai, ei, client, dirs, acctFiles, files, out, calls>>
    /\ UNCHANGED fetchVars
    /\ UNCHANGED <<got, exitCode>>
    /\ UNCHANGED toolVars

\* index.ts: backupAll resolved, the action returns and the process ends.
ExitSuccess ==
    /\ pc = "resolved"
    /\ exitCode = NoExit
    /\ exitCode' = 0
    /\ UNCHANGED <<pc, accounts, ai, ei, client, dirs, acctFiles, files, out, calls,
                   rejectErr, got>>
    /\ UNCHANGED fetchVars
    /\ UNCHANGED toolVars

\* Mutant: the catch logs the error and forgets process.exit(1).
ExitFailure_exitsZero ==
    /\ pc \in {"rejected", "aborted"}
    /\ exitCode = NoExit
    /\ exitCode' = 0
    /\ UNCHANGED <<pc, accounts, ai, ei, client, dirs, acctFiles, files, out, calls,
                   rejectErr, got>>
    /\ UNCHANGED fetchVars
    /\ UNCHANGED toolVars

\* index.ts: catch (error) { Logger.error(message); process.exit(1) }
ExitFailure ==
    /\ pc \in {"rejected", "aborted"}
    /\ exitCode = NoExit
    /\ exitCode' = 1
    /\ UNCHANGED <<pc, accounts, ai, ei, client, dirs, acctFiles, files, out, calls,
                   rejectErr, got>>
    /\ UNCHANGED fetchVars
    /\ UNCHANGED toolVars

Init ==
    /\ pc = "main"
    /\ accounts = <<>>
    /\ ai = 0
    /\ ei = 0
    /\ client = 0
    /\ dirs = {}
    /\ acctFiles = {}
    /\ files = [f \in AccountIds \X Endpoints |-> NoFile]
    /\ out = <<>>
    /\ calls = <<>>
    /\ rejectErr = NoError
    /\ got = <<>>
    /\ exitCode = NoExit
    /\ IdleFetch
    /\ IdleTools

Next ==
    \/ MainMkdir
    \/ GetAccounts
    \/ GetAccountsFailed
    \/ MkdirAccount
    \/ SaveAccountJson
    \/ CreateAccountClient
    \/ BackupEndpoint
    \/ FetchRequest
    \/ FetchPage
    \/ FetchDelay
    \/ FetchCatch
    \/ FetchReturn
    \/ EndpointEmpty
    \/ EndpointSave
    \/ EndpointCatch
    \/ ExitSuccess
    \/ ExitFailure

Spec == Init /\ [][Next]_vars

(***************************************************************************)
(* Vocabulary of the properties                                            *)
(***************************************************************************)
Done == fpc = "done"

\* The last response received is a planned one.
Answered == nresp >= 1 /\ nresp <= Len(script)

\* The records a page response carries, read off the response itself.
PageRecords(r) ==
    IF r.status = 200 /\ Len(r.data.fields) >= 1 /\ r.data.fields[1].key = "users"
    THEN r.data.fields[1].items
    ELSE <<>>

\* The page response carries a next-page cue.
CarriesCue(r) ==
    /\ r.status = 200
    /\ \E i \in 1..Len(r.data.fields) :
          r.data.fields[i].key = "links" /\ r.data.fields[i].next = "url"

\* The records of the first n planned responses, in order.
RECURSIVE RecordsUpTo(_, _)
RecordsUpTo(s, n) ==
    IF n = 0 THEN <<>> ELSE RecordsUpTo(s, n - 1) \o PageRecords(s[n])

\* P successive pages: pages 1..P-1 carry a cue, page P does not.
IsPageRun(s) ==
    \A k \in 1..Len(s) : s[k].status = 200 /\ (CarriesCue(s[k]) <=> k < Len(s))

\* s without its i-th element.
Without(s, i) == SubSeq(s, 1, i - 1) \o SubSeq(s, i + 1, Len(s))

(***************************************************************************)
(* Properties of fetchEndpoint (SpecFetch)                                 *)
(***************************************************************************)
\* C1: for a server returning N records over P successive pages (pages
\* 1..P-1 with a next cue, page P without), fetchEndpoint issues exactly P
\* requests, for pages 1..P, and returns exactly the N records in page order
\* and within-page order.
C1_PaginationComplete ==
    IsPageRun(script) =>
        /\ Len(reqs) <= Len(script)
        /\ \A k \in 1..Len(reqs) : reqs[k].page = k
        /\ Done => /\ fret = Returned(RecordsUpTo(script, Len(script)))
                   /\ Len(reqs) = Len(script)

C1_Witness ==
    /\ Done
    /\ IsPageRun(script)
    /\ Len(script) = 3
    /\ fret.kind = "value"
    /\ Len(fret.data) >= 4

\* C2: a 404 answer, to the first request or a later one, ends the fetch
\* without raising: it returns the records of the earlier pages (none when
\* the 404 answers the first request) and no further request is issued.
C2_NotFoundEndsFetch ==
    (Answered /\ script[nresp].status = 404) =>
        /\ Done
        /\ fret = Returned(RecordsUpTo(script, nresp - 1))
        /\ Len(reqs) = nresp

C2_Witness ==
    /\ Answered
    /\ script[nresp].status = 404
    /\ nresp = 3
    /\ fret.kind = "value"
    /\ Len(fret.data) >= 2

\* C3: when one request is answered 429 with Retry-After: s and the other
\* planned responses are the successive pages, the fetcher waits at least s
\* seconds, asks for the same page again and returns all the records
\* without raising.
C3_RetryAfterRateLimit ==
    \A i \in 1..(Len(script) - 1) :
        (/\ script[i].status = 429
         /\ IsPageRun(Without(script, i))
         /\ Done)
        => /\ fret = Returned(RecordsUpTo(script, Len(script)))
           /\ Len(reqs) = Len(script)
           /\ reqs[i + 1].page = reqs[i].page
           /\ reqs[i + 1].wait >= 1000 * script[i].retryAfter

\* C4: a server that answers every request for a page with 429 makes the
\* fetch fail with RateLimitExceeded.
C4_RateLimitExceeded ==
    (Done /\ Answered /\ \A k \in 1..nresp : script[k].status = 429) =>
        /\ fret.kind = "error"
        /\ fret.err.name = "RateLimitExceeded"

C8_NetworkFailureRetried ==
    (Done /\ nresp >= 1 /\ (nresp > Len(script) \/ script[nresp].status = NoStatus)) =>
        /\ Len(reqs) >= 2
        /\ reqs[Len(reqs)].page = reqs[Len(reqs) - 1].page
        /\ reqs[Len(reqs)].wait > 0
        /\ fret.kind = "error"
        /\ fret.err.name = "NetworkError"
        /\ fret.err.endpoint = fendpoint

\* C9: a non-2xx status other than 404, 429, 401 and 403 makes the fetch
\* fail at once, with no retry and no further request, with an error that
\* carries the status code and the endpoint.
C9_OtherStatusFailsAtOnce ==
    (Answered /\ script[nresp].status \notin {200, 404, 429, 401, 403, NoStatus}) =>
        /\ Done
        /\ fret.kind = "error"
        /\ fret.err.status = script[nresp].status
        /\ fret.err.endpoint = fendpoint
        /\ Len(reqs) = nresp

C9_Witness ==
    /\ Answered
    /\ script[nresp].status = 500
    /\ nresp = 2
    /\ fret.kind = "error"

(***************************************************************************)
(* Properties of a whole run (Spec)                                        *)
(***************************************************************************)
\* Every (account, endpoint) pair of the run, accounts in discovery order
\* and endpoints in catalog order.
AllPairs ==
    [k \in 1..(Len(accounts) * Len(HARVEST_ENDPOINTS)) |->
        << accounts[((k - 1) \div Len(HARVEST_ENDPOINTS)) + 1],
           HARVEST_ENDPOINTS[((k - 1) % Len(HARVEST_ENDPOINTS)) + 1] >>]

\* The number of fetches the driver has started when it stands at pc.
FetchesStarted ==
    IF pc \in {"mkdir", "saveAccount", "client"}
    THEN (ai - 1) * Len(HARVEST_ENDPOINTS)
    ELSE IF pc = "endpoint"
    THEN (ai - 1) * Len(HARVEST_ENDPOINTS) + (ei - 1)
    ELSE (ai - 1) * Len(HARVEST_ENDPOINTS) + ei

\* The run goes through the pairs one by one, leaving none out: it has
\* fetched exactly the pairs before its position and it resolves only after
\* the last pair.
RunGoesOn ==
    /\ Len(calls) <= Len(AllPairs)
    /\ calls = SubSeq(AllPairs, 1, Len(calls))
    /\ pc \in {"mkdir", "saveAccount", "client", "endpoint", "fetch"}
           => Len(calls) = FetchesStarted
    /\ pc = "resolved" => Len(calls) = Len(AllPairs) /\ Len(out) = Len(calls)

\* backupAll rejected with the error of an endpoint fetch.
RejectedByFetch == pc = "rejected" /\ rejectErr.msg = "Failed to fetch"

IsFetchSkip(line) == line.kind = "skipped" /\ line.err.msg = "Failed to fetch"

IsAuthSkip(line) == IsFetchSkip(line) /\ line.err.status \in {401, 403}

IsOtherSkip(line) == IsFetchSkip(line) /\ line.err.status \notin {401, 403}

C7_FetchFailureConfined ==
    /\ ~(RejectedByFetch /\ rejectErr.status \notin {401, 403})
    /\ (\E k \in 1..Len(out) : IsOtherSkip(out[k])) => RunGoesOn

C7_Witness ==
    /\ pc = "resolved"
    /\ Len(accounts) = 2
    /\ IsOtherSkip(out[1])
    /\ out[1].err.status = 500
    /\ IsOtherSkip(out[2])
    /\ out[2].err.status = NoStatus
    /\ Len(calls) = 4

\* C10: a write failure anywhere in the run, the account directory and
\* account.json included, does not abort the run.
C10_WriteFailureNeverAborts ==
    pc = "rejected" => rejectErr.msg \notin {"mkdir", "writeFile"}

(***************************************************************************)
(* A run over the output directory of an earlier run                       *)
(***************************************************************************)
\* What an earlier run saved for an endpoint: one record this run never gets.
StaleFile == File(<<RecordId(9, 9)>>)

\* The endpoint files an earlier run of the first account can have left.
EarlierDisks ==
    { [p \in AccountIds \X Endpoints |-> IF p \in stale THEN StaleFile ELSE NoFile] :
        stale \in SUBSET ({1} \X Endpoints) }

InitRerun ==
    /\ pc = "main"
    /\ accounts = <<>>
    /\ ai = 0
    /\ ei = 0
    /\ client = 0
    /\ dirs = {}
    /\ acctFiles = {}
    /\ files \in EarlierDisks
    /\ out = <<>>
    /\ calls = <<>>
    /\ rejectErr = NoError
    /\ got = <<>>
    /\ exitCode = NoExit
    /\ IdleFetch
    /\ IdleTools

SpecRerun == InitRerun /\ [][Next]_vars

\* The k-th fetch of the run succeeded: it returned, and not because of a 404.
FetchSucceeded(k) == got[k].ret.kind = "value" /\ got[k].status = 200

\* The records on disk for the pair of the k-th fetch (none when no file).
OnDisk(k) == files[AllPairs[k]].content

\* C11: for every endpoint whose fetch succeeded in this run, the file on
\* disk holds exactly the records this run fetched, whatever an earlier run
\* left there, also when this run fetched zero records.
C11_JsonNeverStale ==
    \A k \in 1..Len(got) : FetchSucceeded(k) => OnDisk(k) = got[k].ret.data

(***************************************************************************)
(* Which endpoint files a run writes                                       *)
(***************************************************************************)
\* The k-th fetch returned at least one record.
ReturnedRecords(k) == got[k].ret.kind = "value" /\ Len(got[k].ret.data) >= 1

\* The write of the records of the k-th fetch failed and was logged.
WriteFailed(k) ==
    /\ k <= Len(out)
    /\ out[k].kind = "skipped"
    /\ out[k].err.msg = "writeFile"

\* The file of pair p is as the run's fetch for p says: written says whether
\* the k-th fetch of the run leads to a file; without a fetch there is no file.
FilesAre(written(_)) ==
    LET pairs == AllPairs
    IN  /\ \A k \in 1..Len(pairs) :
               LET f == files[pairs[k]]
               IN  IF k <= Len(got)
                   THEN /\ f.exists <=> written(k)
                        /\ f.exists => f.content = got[k].ret.data
                   ELSE ~f.exists
        /\ \A p \in DOMAIN files : p[1] > Len(accounts) => ~files[p].exists

\* The k-th fetch returned at least one record and its write did not fail.
RecordsSaved(k) == ReturnedRecords(k) /\ ~WriteFailed(k)

\* C12 as stated: an endpoint's file is written if and only if its fetch
\* succeeded with at least one record, and then holds exactly the fetched
\* records; zero records or a failed fetch write no file.
C12_WrittenIffRecords == FilesAre(ReturnedRecords)

\* C12 as amended: an endpoint's file is written if and only if its fetch
\* returned at least one record and the write itself did not fail, and then
\* holds exactly the fetched records; zero records, a failed fetch or a
\* failed write leave no file.
C12_WrittenIffRecordsSaved == FilesAre(RecordsSaved)

C12_Witness ==
    /\ pc = "resolved"
    /\ Len(got) = 4
    /\ files[AllPairs[1]] = File(<<RecordId(1, 1), RecordId(2, 1)>>)
    /\ got[2].ret = Returned(<<>>) /\ ~files[AllPairs[2]].exists
    /\ got[3].ret.kind = "error" /\ got[3].status = 500 /\ ~files[AllPairs[3]].exists
    /\ ReturnedRecords(4) /\ WriteFailed(4) /\ ~files[AllPairs[4]].exists

(***************************************************************************)
(* What is reported for an endpoint                                        *)
(***************************************************************************)
\* The outcome a line reports, apart from which endpoint it is about.
Reported(line) == <<line.kind, line.count, line.err.msg, line.err.status>>

\* The k-th endpoint was not backed up: its fetch failed, or the endpoint is
\* not available (404) and nothing was fetched.
NotBackedUp(k) ==
    \/ got[k].ret.kind = "error"
    \/ got[k].status = 404 /\ got[k].ret.data = <<>>

\* The k-th fetch succeeded with zero records.
SuccessfullyEmpty(k) == FetchSucceeded(k) /\ got[k].ret.data = <<>>

\* C13: an endpoint that was not backed up because it failed or is
\* unavailable (404) is never reported like an endpoint whose fetch succeeded
\* with zero records.
C13_SkippedDistinctFromEmpty ==
    \A j, k \in 1..Len(out) :
        (NotBackedUp(j) /\ SuccessfullyEmpty(k)) => Reported(out[j]) # Reported(out[k])

(***************************************************************************)
(* Exit code                                                               *)
(***************************************************************************)
\* The k-th fetch failed on a 401 or 403 answer.
AuthFailedFetch(k) == got[k].ret.kind = "error" /\ got[k].ret.err.status \in {401, 403}

\* The k-th fetch failed for another reason.
OtherFailedFetch(k) == got[k].ret.kind = "error" /\ got[k].ret.err.status \notin {401, 403}

\* The run met an authentication failure, at discovery or at an endpoint.
AuthFailureSeen ==
    \/ rejectErr = AccountsError(401)
    \/ \E k \in 1..Len(got) : AuthFailedFetch(k)

MaxContent == 2
MaxCalls == 4

\* Artifact identifiers, and the byte contents an artifact can have.
ArtifactIds == {"invoice:300", "estimate:7"}
Contents == 1..MaxContent

\* digest = hash(content_bytes): a stable hash without collisions on Contents.
Hash(content) == (7 * content + 3) % 11

\* f with key k set to v (an entry is created when there was none).
Put(f, k, v) == [x \in (DOMAIN f) \union {k} |-> IF x = k THEN v ELSE f[x]]

\* The bytes at the destination path of id, as a sequence (empty: no file).
Stored(id) == IF id \in DOMAIN artFiles THEN <<artFiles[id]>> ELSE <<>>

\* A maybe_write call as it went: its arguments, its decision, what was at
\* the destination before it, and what it touched.
Call(id, content, decision, touched) ==
    [id |-> id, content |-> content, decision |-> decision, before |-> Stored(id),
     fileWritten |-> touched, manifestPersisted |-> touched]

\* Mutant: the digest is not compared, every call writes.
maybe_write_always(id, content) ==
    /\ artFiles' = Put(artFiles, id, content)
    /\ manifest' = Put(manifest, id, Hash(content))
    /\ mwlog' = Append(mwlog, Call(id, content, "written", TRUE))

\* Mutant: an artifact that has a manifest entry is never written again.
maybe_write_onlyIfAbsent(id, content) ==
    IF id \notin DOMAIN manifest
    THEN /\ artFiles' = Put(artFiles, id, content)
         /\ manifest' = Put(manifest, id, Hash(content))
         /\ mwlog' = Append(mwlog, Call(id, content, "written", TRUE))
    ELSE /\ UNCHANGED <<artFiles, manifest>>
         /\ mwlog' = Append(mwlog, Call(id, content, "skipped", FALSE))

\* maybe_write(artifact_id, content_bytes, destination_path, manifest)
maybe_write(id, content) ==
    IF id \notin DOMAIN manifest \/ manifest[id] # Hash(content)
    THEN /\ artFiles' = Put(artFiles, id, content)
         /\ manifest' = Put(manifest, id, Hash(content))
         /\ mwlog' = Append(mwlog, Call(id, content, "written", TRUE))
    ELSE /\ UNCHANGED <<artFiles, manifest>>
         /\ mwlog' = Append(mwlog, Call(id, content, "skipped", FALSE))

\* A driver that calls maybe_write for some artifact with some content.
WriteArtifact ==
    /\ pc = "artifacts"
    /\ Len(mwlog) < MaxCalls
    /\ \E id \in ArtifactIds, content \in Contents : maybe_write(id, content)
    /\ UNCHANGED <<nameIn, nameOut, cyclic, orig>>
    /\ UNCHANGED runVars
    /\ UNCHANGED fetchVars

\* The manifest and the files earlier runs left: per artifact nothing, or
\* some content written and its digest recorded.
InitArtifact ==
    /\ pc = "artifacts"
    /\ accounts = <<>>
    /\ ai = 0
    /\ ei = 0
    /\ client = 0
    /\ dirs = {}
    /\ acctFiles = {}
    /\ files = [f \in AccountIds \X Endpoints |-> NoFile]
    /\ out = <<>>
    /\ calls = <<>>
    /\ rejectErr = NoError
    /\ got = <<>>
    /\ exitCode = NoExit
    /\ IdleFetch
    /\ \E known \in SUBSET ArtifactIds : \E prior \in [known -> Contents] :
          /\ artFiles = prior
          /\ manifest = [id \in known |-> Hash(prior[id])]
    /\ mwlog = <<>>
    /\ nameIn = <<>>
    /\ nameOut = <<>>
    /\ cyclic = FALSE
    /\ orig = IdleOrig

NextArtifact == WriteArtifact

SpecArtifact == InitArtifact /\ [][NextArtifact]_vars

\* Calls i and j are two calls in a row for the same artifact id.
InARow(i, j) ==
    /\ i < j
    /\ mwlog[i].id = mwlog[j].id
    /\ \A m \in (i + 1)..(j - 1) : mwlog[m].id # mwlog[i].id

\* No call for the artifact of call j was made after call j.
LastCallOf(j) == \A m \in (j + 1)..Len(mwlog) : mwlog[m].id # mwlog[j].id

\* Call i brought content the destination did not hold yet.
BroughtNew(i) == mwlog[i].before # <<mwlog[i].content>>

\* C15: two calls in a row for one artifact id with identical content return
\* written then skipped; the second touches neither the file nor the manifest,
\* and the file holds the original content after both.
C15_SameContentSkipped ==
    \A i, j \in 1..Len(mwlog) :
        (InARow(i, j) /\ mwlog[i].content = mwlog[j].content) =>
            /\ BroughtNew(i) => mwlog[i].decision = "written"
            /\ mwlog[j].decision = "skipped"
            /\ ~mwlog[j].fileWritten
            /\ ~mwlog[j].manifestPersisted
            /\ LastCallOf(j) => Stored(mwlog[j].id) = <<mwlog[i].content>>

C15_Witness ==
    \E i, j \in 1..Len(mwlog) :
        /\ InARow(i, j)
        /\ mwlog[i].content = mwlog[j].content
        /\ mwlog[i].decision = "written"
        /\ mwlog[j].decision = "skipped"

\* C16: two calls in a row for one artifact id with content A and then a
\* different content B return written both times; afterwards the manifest
\* entry of the id is the digest of B and the file holds B.
C16_ChangedContentWritten ==
    \A i, j \in 1..Len(mwlog) :
        (InARow(i, j) /\ mwlog[i].content # mwlog[j].content /\ BroughtNew(i)) =>
            /\ mwlog[i].decision = "written"
            /\ mwlog[j].decision = "written"
            /\ LastCallOf(j) =>
                   /\ mwlog[j].id \in DOMAIN manifest
                   /\ manifest[mwlog[j].id] = Hash(mwlog[j].content)
                   /\ Stored(mwlog[j].id) = <<mwlog[j].content>>

C16_Witness ==
    \E i, j \in 1..Len(mwlog) :
        /\ InARow(i, j)
        /\ LastCallOf(j)
        /\ mwlog[i].content # mwlog[j].content
        /\ mwlog[i].decision = "written"
        /\ mwlog[j].decision = "written"

(***************************************************************************)
(* Account discovery                                                       *)
(***************************************************************************)
\* No account was processed: no account client, no fetch, no request, no
\* directory and no file.
NothingProcessed ==
    /\ client = 0
    /\ calls = <<>>
    /\ got = <<>>
    /\ out = <<>>
    /\ fpc = "idle"
    /\ dirs = {}
    /\ acctFiles = {}
    /\ \A p \in DOMAIN files : ~files[p].exists

\* getAccounts failed.
DiscoveryFailed == \E st \in {401, NoStatus} : rejectErr = AccountsError(st)

\* C17: when discovery returns no accounts, backupAll completes without any
\* account client, fetch or account directory; when discovery fails,
\* backupAll rejects before any account is processed.
C17_NoAccountsNothingDone ==
    /\ (pc = "resolved" /\ accounts = <<>>) => NothingProcessed
    /\ DiscoveryFailed => (pc = "rejected" /\ accounts = <<>> /\ NothingProcessed)

C17_Witness ==
    /\ pc = "resolved"
    /\ accounts = <<>>
    /\ exitCode = 0

(***************************************************************************)
(* One fetch per account and endpoint                                      *)
(***************************************************************************)
\* backupAll rejected although accounts were discovered and no write failed.
RejectedOtherwise ==
    /\ pc = "rejected"
    /\ ~DiscoveryFailed
    /\ rejectErr \notin {FsError("mkdir"), FsError("writeFile")}

\* C18: with k accounts discovered and no failed write, the fetcher is
\* invoked exactly once per (account, endpoint) pair, accounts in order and
\* endpoints in catalog order within each, whatever the earlier fetches gave.
C18_OnceForEveryPair ==
    LET pairs == AllPairs
    IN  /\ Len(calls) <= Len(pairs)
        /\ \A k \in 1..Len(calls) : calls[k] = pairs[k]
        /\ pc = "resolved" => Len(calls) = Len(pairs)
        /\ ~RejectedOtherwise

C18_Witness ==
    /\ pc = "resolved"
    /\ Len(accounts) = MaxAccounts
    /\ Len(calls) = MaxAccounts * Len(HARVEST_ENDPOINTS)
    /\ got[1].ret.kind = "error"
    /\ got[2].ret.kind = "value"
    /\ got[3].ret.kind = "error"

(***************************************************************************)
(* Sequential run                                                          *)
(***************************************************************************)
\* The number of endpoints the run has finished when account ai stands at
\* its endpoint ei and the endpoints before it are finished.
FinishedBefore(a, e) == (a - 1) * Len(HARVEST_ENDPOINTS) + (e - 1)

\* C19: the run is strictly sequential. At most one endpoint is started and
\* unfinished; a request is issued only for that endpoint; an endpoint starts
\* only when every endpoint before it is finished; and the work of account
\* i+1 (its directory, its account.json, its requests) starts only when every
\* endpoint of the accounts before it is finished and no request is in flight.
C19_StrictlySequential ==
    /\ Len(calls) - Len(got) \in {0, 1}
    /\ Len(calls) - Len(got) = 1 <=> pc = "fetch"
    /\ fpc # "idle" =>
           /\ pc = "fetch"
           /\ calls[Len(calls)] = <<accounts[ai], fendpoint>>
           /\ Len(got) = FinishedBefore(ai, ei)
    /\ pc = "endpoint" => Len(got) = FinishedBefore(ai, ei)
    /\ pc \in {"mkdir", "saveAccount", "client"} =>
           /\ fpc = "idle"
           /\ Len(got) = FinishedBefore(ai, 1)

C19_Witness ==
    /\ pc = "fetch"
    /\ fpc = "await_get"
    /\ ai = 2
    /\ ei = 1
    /\ Len(got) = Len(HARVEST_ENDPOINTS)

(***************************************************************************)
(* Directory and file names (a string is a sequence of characters)         *)
(***************************************************************************)
MaxNameLen == 2
MaxPathLen == 3

LowerCase ==
    <<
       "a", "b", "c", "d", "e", "f", "g", "h", "i", "j", "k", "l", "m",
       "n", "o", "p", "q", "r", "s", "t", "u", "v", "w", "x", "y", "z" >>

UpperCase ==
    <<
       "A", "B", "C", "D", "E", "F", "G", "H", "I", "J", "K", "L", "M",
       "N", "O", "P", "Q", "R", "S", "T", "U", "V", "W", "X", "Y", "Z" >>

DigitChars == <<"0", "1", "2", "3", "4", "5", "6", "7", "8", "9">>

Range(s) == {s[i] : i \in 1..Len(s)}

\* The strings over an alphabet with lo to hi characters.
Strings(alphabet, lo, hi) == UNION {[1..n -> alphabet] : n \in lo..hi}

\* Characters of account names: letters, a digit, the two kept signs, and
\* others (blank, separators, a letter outside ASCII).
NameAlphabet == {"a", "Z", "7", "_", "-", " ", "/", "*", "é"}

\* Characters of endpoint paths.
PathAlphabet == {"a", "/", "_"}

\* `${account.id}`: the decimal digits of a non-negative integer.
RECURSIVE IdToString(_)
IdToString(n) ==
    IF n < 10
    THEN <<DigitChars[n + 1]>>
    ELSE IdToString(n \div 10) \o <<DigitChars[(n % 10) + 1]>>

\* Flag i of a regular expression: an upper-case ASCII letter counts as its
\* lower-case letter.
Canonical(c) ==
    IF c \in Range(UpperCase)
    THEN LowerCase[CHOOSE i \in 1..Len(UpperCase) : UpperCase[i] = c]
    ELSE c

\* Mutant: the flag i is missing, [^a-z0-9_\-] replaces upper-case letters.
sanitizeFilename_caseSensitive(filename) ==
    [i \in 1..Len(filename) |->
        IF filename[i] \in Range(LowerCase) \union Range(DigitChars) \union {"_", "-"}
        THEN filename[i]
        ELSE "_"]

\* filename.replace(/[^a-z0-9_\-]/gi, '_')
sanitizeFilename(filename) ==
    [i \in 1..Len(filename) |->
        IF Canonical(filename[i]) \in Range(LowerCase) \union Range(DigitChars) \union {"_", "-"}
        THEN filename[i]
        ELSE "_"]

\* Mutant: the id and the name are joined without the hyphen.
getAccountDirectory_noSeparator(id, name) == sanitizeFilename(IdToString(id) \o name)

\* sanitizeFilename(`${account.id}-${account.name}`), the last part of the path
getAccountDirectory(id, name) == sanitizeFilename(IdToString(id) \o <<"-">> \o name)

\* `${endpoint.replace(/\//g, '_')}.json`
getEndpointFilename(endpoint) ==
    [i \in 1..Len(endpoint) |-> IF endpoint[i] = "/" THEN "_" ELSE endpoint[i]]
    \o <<".", "j", "s", "o", "n">>

\* The names of an account's directory and of an endpoint's file are built.
BuildNames ==
    /\ pc = "naming"
    /\ nameOut' = [dir |-> getAccountDirectory(nameIn.id, nameIn.name),
                   file |-> getEndpointFilename(nameIn.endpoint)]
    /\ pc' = "named"
    /\ UNCHANGED <<accounts, ai, ei, client, dirs, acctFiles, files, out, calls,
                   rejectErr, got, exitCode>>
    /\ UNCHANGED fetchVars
    /\ UNCHANGED <<manifest, artFiles, mwlog, nameIn, cyclic, orig>>

InitNames ==
    /\ pc = "naming"
    /\ accounts = <<>>
    /\ ai = 0
    /\ ei = 0
    /\ client = 0
    /\ dirs = {}
    /\ acctFiles = {}
    /\ files = [f \in AccountIds \X Endpoints |-> NoFile]
    /\ out = <<>>
    /\ calls = <<>>
    /\ rejectErr = NoError
    /\ got = <<>>
    /\ exitCode = NoExit
    /\ IdleFetch
    /\ manifest = <<>>
    /\ artFiles = <<>>
    /\ mwlog = <<>>
    /\ \E id \in {0, 7, 42, 100} :
       \E name \in Strings(NameAlphabet, 0, MaxNameLen) :
       \E endpoint \in Strings(PathAlphabet, 1, MaxPathLen) :
          nameIn = [id |-> id, name |-> name, endpoint |-> endpoint]
    /\ nameOut = <<>>
    /\ cyclic = FALSE
    /\ orig = IdleOrig

NextNames == BuildNames

SpecNames == InitNames /\ [][NextNames]_vars

\* The characters a directory name may hold.
Kept == Range(LowerCase) \union Range(UpperCase) \union Range(DigitChars) \union {"_", "-"}

\* C20: the directory name built from an account's id and name holds only
\* letters, digits, underscore and hyphen, every other character of
\* "<id>-<name>" being replaced by an underscore; the file name of an endpoint
\* is its path with every '/' replaced by '_', followed by ".json".
C20_NamesSanitized ==
    pc = "named" =>
        LET given == IdToString(nameIn.id) \o <<"-">> \o nameIn.name
            dir == nameOut.dir
            path == nameIn.endpoint
            file == nameOut.file
        IN  /\ Range(dir) \subseteq Kept
            /\ Len(dir) = Len(given)
            /\ \A i \in 1..Len(given) :
                   dir[i] = IF given[i] \in Kept THEN given[i] ELSE "_"
            /\ Len(file) = Len(path) + 5
            /\ \A i \in 1..Len(path) :
                   file[i] = IF path[i] = "/" THEN "_" ELSE path[i]
            /\ SubSeq(file, Len(path) + 1, Len(file)) = <<".", "j", "s", "o", "n">>

C20_Witness ==
    /\ pc = "named"
    /\ nameIn.id = 100
    /\ nameIn.name = <<"Z", "/">>
    /\ nameOut.dir = <<"1", "0", "0", "-", "Z", "_">>
    /\ nameIn.endpoint = <<"a", "/", "a">>
    /\ nameOut.file = <<"a", "_", "a", ".", "j", "s", "o", "n">>

(***************************************************************************)
(* fetchEndpoint against pages of every shape of pagination cue            *)
(***************************************************************************)
MaxCuePages == 2

\* A page body of the k-th planned response.
\*   arr: "none" (no array-valued key), "empty", "one" (one record);
\*   nextPage: next_page "absent", "null" (num 0) or a "number" (k + 1);
\*   links: links.next "undefined", "null", or a URL that names the page
\*          after this one ("next") or the first page ("back"); num of the
\*          links field is the page the URL names.
CueBody(k, arr, nextPage, links) ==
    [fields |->
        (IF arr = "none" THEN <<>>
         ELSE <<Field("users", TRUE,
                      IF arr = "one" THEN <<RecordId(k, 1)>> ELSE <<>>,
                      "undefined", 0)>>)
        \o (IF nextPage = "absent" THEN <<>>
            ELSE <<Field("next_page", FALSE, <<>>, "undefined",
                         IF nextPage = "number" THEN k + 1 ELSE 0)>>)
        \o <<Field("links", FALSE, <<>>,
                   IF links \in {"next", "back"} THEN "url" ELSE links,
                   IF links = "next" THEN k + 1 ELSE IF links = "back" THEN 1 ELSE 0)>>]

CueChoices ==
    {[status |-> 200, arr |-> a, nextPage |-> n, links |-> l] :
        a \in {"none", "empty", "one"},
        n \in {"absent", "null", "number"},
        l \in {"undefined", "null", "next", "back"}}
    \cup {[status |-> 404, arr |-> "none", nextPage |-> "absent", links |-> "undefined"]}

\* A page after which some reading of its cues asks for another page.
CueGoesOn(c) ==
    /\ c.status = 200
    /\ c.nextPage = "number" \/ c.links \in {"next", "back"}

CueMaterialise(k, c) ==
    IF c.status = 200
    THEN Response(200, 0, CueBody(k, c.arr, c.nextPage, c.links))
    ELSE Response(c.status, 0, NoBody)

CueScripts ==
    LET plans == UNION {[1..l -> CueChoices] : l \in 1..MaxCuePages}
        ok(p) == \A k \in 1..(Len(p) - 1) : CueGoesOn(p[k])
    IN  {[k \in 1..Len(p) |-> CueMaterialise(k, p[k])] : p \in {q \in plans : ok(q)}}

InitCue ==
    /\ pc = "cue"
    /\ accounts = <<>>
    /\ ai = 0
    /\ ei = 0
    /\ client = 123
    /\ dirs = {}
    /\ acctFiles = {}
    /\ files = [f \in AccountIds \X Endpoints |-> NoFile]
    /\ out = <<>>
    /\ calls = <<>>
    /\ rejectErr = NoError
    /\ got = <<>>
    /\ exitCode = NoExit
    /\ IdleFetch
    /\ manifest = <<>>
    /\ artFiles = <<>>
    /\ mwlog = <<>>
    /\ nameIn = <<>>
    /\ nameOut = <<>>
    /\ cyclic \in BOOLEAN
    /\ orig = IdleOrig

\* client.fetchEndpoint(accountClient, 'users') against one of the servers.
CueCall ==
    /\ pc = "cue"
    /\ fpc = "idle"
    /\ \E plan \in CueScripts : fetchEndpoint("users", plan)
    /\ UNCHANGED runVars
    /\ UNCHANGED toolVars

NextCue ==
    \/ CueCall
    \/ FetchRequest
    \/ FetchPage
    \/ FetchDelay
    \/ FetchCatch
    \/ FetchReturn

SpecCue == InitCue /\ [][NextCue]_vars

\* The body of the page just received (at the delay after a page).
PageReceived == ResponseAt(nresp).data

\* The value of the key of a body as a set of fields (empty: key absent).
FieldsOf(data, key) ==
    {data.fields[i] : i \in {j \in 1..Len(data.fields) : data.fields[j].key = key}}

\* The body carries a next_page number.
HasNextPageNumber(data) == \E f \in FieldsOf(data, "next_page") : f.num > 0

\* The body carries a links.next URL.
HasLinksNext(data) == \E f \in FieldsOf(data, "links") : f.next = "url"

\* C21: after a successful page another page is requested if and only if the
\* response carries a next-page cue: a next_page number when present, else a
\* links.next URL; with neither the fetch ends.
C21_EitherCueHonoured ==
    fpc = "await_delay" =>
        (hasMore <=> (HasNextPageNumber(PageReceived) \/ HasLinksNext(PageReceived)))

\* The body has no array-valued key besides links, or its array is empty.
NoRecords(data) ==
    \A i \in 1..Len(data.fields) :
        (data.fields[i].isArray /\ data.fields[i].key # "links") =>
            data.fields[i].items = <<>>

FollowsPageOrNotFound(i) ==
    \/ i > 1
    \/ /\ i = 1
       /\ Len(got) >= 1
       /\ got[Len(got)].status \in {200, 404}

\* C23: between two consecutive requests of a run the minimum inter-request
\* delay elapses, whether the earlier one ended in a successful page or in a
\* 404, also when the two belong to different endpoints.
C23_DelayBetweenRequests ==
    \A i \in 1..Len(reqs) :
        FollowsPageOrNotFound(i) => reqs[i].wait >= RATE_LIMIT_DELAY

(***************************************************************************)
(* A server whose cue leads back to a page already visited                 *)
(***************************************************************************)
\* The response planned for page p carries a links.next URL that names a
\* page up to p: a page already visited.
CueLeadsBack(p) ==
    /\ p \in 1..Len(script)
    /\ script[p].status = 200
    /\ \E f \in FieldsOf(script[p].data, "links") : f.next = "url" /\ f.num <= p

C25_ClientOfTheAccount ==
    /\ pc \in {"endpoint", "fetch"} => client = accounts[ai]
    /\ pc = "fetch" => calls[Len(calls)] = <<accounts[ai], fendpoint>>
    /\ \A k \in 1..Len(out) : k <= Len(calls) => calls[k][1] = out[k].account
    /\ \A p \in DOMAIN files :
           files[p].exists =>
               \E k \in 1..Len(got) : calls[k] = p /\ got[k].ret.data = files[p].content

C25_Witness ==
    /\ pc = "resolved"
    /\ Len(accounts) = 2
    /\ files[<<2, "users">>].exists
    /\ calls[3] = <<2, "users">>
    /\ files[<<1, "users">>].exists

(***************************************************************************)
(* Page numbers of one fetchEndpoint call                                  *)
(***************************************************************************)
\* C26: within one fetchEndpoint call the k-th request carries page = k and
\* per_page = PER_PAGE, whatever page the links.next URL of the server
\* names: no page number is requested twice and none is skipped.
C26_PagesInOrder ==
    /\ \A k \in 1..Len(reqs) :
           reqs[k].page = k /\ reqs[k].per_page = PER_PAGE
    /\ \A i, j \in 1..Len(reqs) : reqs[i].page = reqs[j].page => i = j
    /\ fpc \in {"loop", "await_delay"} => page = Len(reqs) + 1

C26_Witness ==
    /\ fpc = "done"
    /\ ~cyclic
    /\ CueLeadsBack(1)
    /\ Len(reqs) = 3
    /\ reqs[3].page = 3

(***************************************************************************)
(* A fetch that fails after its first page                                 *)
(***************************************************************************)
\* The fetchEndpoint call in progress has just ended on a failed request
\* for a page after the first, with an error other than 404.
FailedAfterFirstPage ==
    /\ pc = "fetch"
    /\ fpc = "done"
    /\ Len(reqs) > 1
    /\ LastStatus \notin {200, 404}

\* C27: when a fetch fails on page k > 1 with an error other than 404, the
\* records collected from pages 1..k-1 are discarded: fetchEndpoint raises
\* instead of returning them, the step that handles the failure leaves
\* every file as it is, and the endpoint's file stays absent or as the
\* earlier run left it until the end of the run.
C27_PartialPagesDiscarded ==
    /\ [](FailedAfterFirstPage =>
            /\ Len(results) >= 1
            /\ fret.kind = "error"
            /\ fret.data = <<>>)
    /\ [](\A k \in 1..Len(got) :
            got[k].ret.kind = "error" =>
                files[AllPairs[k]] \in {NoFile, StaleFile})
    /\ [][FailedAfterFirstPage =>
            /\ files' = files
            /\ got' = Append(got, Completed)
            /\ out'[Len(out')].kind = "skipped"]_vars

C27_Witness ==
    /\ pc = "resolved"
    /\ \E k \in 1..Len(got) :
          /\ got[k].status = 500
          /\ got[k].ret.kind = "error"
          /\ files[AllPairs[k]] = StaleFile
    /\ \E k \in 1..Len(got) :
          /\ got[k].status = 500
          /\ files[AllPairs[k]] = NoFile

(***************************************************************************)
(* The directories of two accounts                                         *)
(***************************************************************************)
\* Characters of the names of the two accounts: digits (which could run
\* into the id), the hyphen that separates id and name, a replaced sign.
PairAlphabet == {"0", "1", "-", "/"}

\* Ids whose decimal digits are prefixes of one another.
PairIds == {0, 1, 10, 11}

\* The accounts GET /accounts can list side by side.
PairAccounts ==
    [id : PairIds, name : Strings(PairAlphabet, 0, MaxNameLen)]

\* backupAccount of two accounts of one run: getAccountDirectory of each.
BuildDirectories ==
    /\ pc = "pairing"
    /\ nameOut' = [a |-> getAccountDirectory(nameIn.a.id, nameIn.a.name),
                   b |-> getAccountDirectory(nameIn.b.id, nameIn.b.name)]
    /\ pc' = "paired"
    /\ UNCHANGED <<accounts, ai, ei, client, dirs, acctFiles, files, out, calls,
                   rejectErr, got, exitCode>>
    /\ UNCHANGED fetchVars
    /\ UNCHANGED <<manifest, artFiles, mwlog, nameIn, cyclic, orig>>

InitDirs ==
    /\ pc = "pairing"
    /\ accounts = <<>>
    /\ ai = 0
    /\ ei = 0
    /\ client = 0
    /\ dirs = {}
    /\ acctFiles = {}
    /\ files = [f \in AccountIds \X Endpoints |-> NoFile]
    /\ out = <<>>
    /\ calls = <<>>
    /\ rejectErr = NoError
    /\ got = <<>>
    /\ exitCode = NoExit
    /\ IdleFetch
    /\ manifest = <<>>
    /\ artFiles = <<>>
    /\ mwlog = <<>>
    /\ \E a \in PairAccounts : \E b \in PairAccounts : nameIn = [a |-> a, b |-> b]
    /\ nameOut = <<>>
    /\ cyclic = FALSE
    /\ orig = IdleOrig

NextDirs == BuildDirectories

SpecDirs == InitDirs /\ [][NextDirs]_vars

\* C28: two accounts with distinct non-negative integer ids get distinct
\* account directories, whatever their names.
C28_DistinctIdsDistinctDirectories ==
    (pc = "paired" /\ nameIn.a.id # nameIn.b.id) => nameOut.a # nameOut.b

C28_Witness ==
    /\ pc = "paired"
    /\ nameIn.a = [id |-> 1, name |-> <<"0">>]
    /\ nameIn.b = [id |-> 10, name |-> <<>>]
    /\ nameOut.a = <<"1", "-", "0">>
    /\ nameOut.b = <<"1", "0", "-">>

(***************************************************************************)
(* account.json                                                            *)
(***************************************************************************)
\* The accounts backupAccount has been entered for.
AccountsEntered == {accounts[i] : i \in 1..ai}

\* C29: account.json of an account is written before the account's client
\* is created and before any of its endpoints is fetched, and once per run:
\* when it is about to be written it has not been written yet, and at the
\* end every account has it, whatever the fetches returned.
C29_AccountJsonFirstAndOnce ==
    /\ pc = "client" => accounts[ai] \in acctFiles
    /\ pc \in {"endpoint", "fetch"} => client \in acctFiles
    /\ \A k \in 1..Len(calls) : calls[k][1] \in acctFiles
    /\ pc \in {"mkdir", "saveAccount"} =>
          /\ accounts[ai] \notin acctFiles
          /\ client # accounts[ai]
          /\ \A k \in 1..Len(calls) : calls[k][1] # accounts[ai]
    /\ acctFiles \subseteq AccountsEntered
    /\ pc = "resolved" => acctFiles = AccountsEntered

C29_Witness ==
    /\ pc = "resolved"
    /\ acctFiles = {1, 2}
    /\ Len(got) = Len(calls)
    /\ \E k \in 1..Len(got) : got[k].ret.kind = "error" /\ calls[k][1] = 1
    /\ \E k \in 1..Len(got) : got[k].status = 404 /\ calls[k][1] = 2

(***************************************************************************)
(* The original fetchEndpoint, before the helpers were extracted           *)
(***************************************************************************)
\* params: { page, per_page: 100 }
ORIG_PER_PAGE == 100

\* setTimeout(resolve, 100)
ORIG_DELAY == 100

\* Object.keys(data).find(key => Array.isArray(data[key]) && key !== 'links'),
\* then results.push(...data[resourceKey]) if (resourceKey && Array.isArray(..)).
OrigPush(res, data) ==
    LET keys == {i \in 1..Len(data.fields) :
                    data.fields[i].isArray /\ data.fields[i].key # "links"}
    IN  IF keys # {}
        THEN LET resourceKey == CHOOSE i \in keys : \A j \in keys : i <= j
             IN  IF data.fields[resourceKey].isArray
                 THEN res \o data.fields[resourceKey].items
                 ELSE res
        ELSE res

\* hasMore = data.links?.next !== undefined && data.links?.next !== null
OrigHasMore(data) ==
    LET links == {i \in 1..Len(data.fields) : data.fields[i].key = "links"}
    IN  /\ links # {}
        /\ \A i \in links : data.fields[i].next # "undefined"
        /\ \A i \in links : data.fields[i].next # "null"

\* The response to the request of the original in flight, from a server set
\* up as for the refactored call.
OrigResponse ==
    LET p == orig.reqs[Len(orig.reqs)].page
        used == \E i \in 1..(Len(orig.reqs) - 1) : orig.reqs[i].page = p
    IN  IF cyclic \/ ~used THEN ResponseAt(p) ELSE NetworkFailure

OrigUnchanged ==
    /\ UNCHANGED fetchVars
    /\ UNCHANGED runVars
    /\ UNCHANGED <<manifest, artFiles, mwlog, nameIn, nameOut, cyclic>>

\* Entry of the original, once the refactored call on the same endpoint and
\* the same server responses is over: results = [], page = 1, hasMore = true.
OrigCall ==
    /\ pc = "equiv"
    /\ fpc = "done"
    /\ orig.fpc = "idle"
    /\ orig' = [IdleOrig EXCEPT !.fpc = "loop"]
    /\ OrigUnchanged

\* while (hasMore): accountClient.get(endpoint, {params: {page, per_page: 100}})
OrigRequest ==
    /\ orig.fpc = "loop"
    /\ orig.hasMore
    /\ Len(orig.reqs) < MaxRequests
    /\ orig' = [orig EXCEPT
                  !.reqs = Append(@, [page |-> orig.page, per_page |-> ORIG_PER_PAGE,
                                      wait |-> orig.slept]),
                  !.slept = 0,
                  !.fpc = "await_get"]
    /\ OrigUnchanged

\* The get resolved: collect the page, test links.next, advance.
OrigPage ==
    /\ orig.fpc = "await_get"
    /\ OrigResponse.status = 200
    /\ orig' = [orig EXCEPT
                  !.nresp = @ + 1,
                  !.results = OrigPush(@, OrigResponse.data),
                  !.hasMore = OrigHasMore(OrigResponse.data),
                  !.page = @ + 1,
                  !.fpc = "await_delay"]
    /\ OrigUnchanged

\* await new Promise(resolve => setTimeout(resolve, 100)) is over.
OrigDelay ==
    /\ orig.fpc = "await_delay"
    /\ orig' = [orig EXCEPT !.slept = @ + ORIG_DELAY, !.fpc = "loop"]
    /\ OrigUnchanged

\* The get rejected: break on 404, else throw new Error(`Failed to fetch ...`).
OrigCatch ==
    /\ orig.fpc = "await_get"
    /\ OrigResponse.status # 200
    /\ orig' = [orig EXCEPT
                  !.nresp = @ + 1,
                  !.fret = IF OrigResponse.status = 404
                           THEN Returned(orig.results)
                           ELSE Thrown(Err("Failed to fetch", fendpoint,
                                           OrigResponse.status)),
                  !.fpc = "done"]
    /\ OrigUnchanged

\* return results
OrigReturn ==
    /\ orig.fpc = "loop"
    /\ ~orig.hasMore
    /\ orig' = [orig EXCEPT !.fret = Returned(orig.results), !.fpc = "done"]
    /\ OrigUnchanged

\* The server behaviours both versions are run against: pages with every
\* combination of cues, and the failures of the fetch scripts.
EquivScripts == CueScripts \cup Scripts(MaxCuePages, 1)

InitEquiv ==
    /\ pc = "equiv"
    /\ accounts = <<>>
    /\ ai = 0
    /\ ei = 0
    /\ client = 123
    /\ dirs = {}
    /\ acctFiles = {}
    /\ files = [f \in AccountIds \X Endpoints |-> NoFile]
    /\ out = <<>>
    /\ calls = <<>>
    /\ rejectErr = NoError
    /\ got = <<>>
    /\ exitCode = NoExit
    /\ IdleFetch
    /\ IdleTools

\* client.fetchEndpoint(accountClient, 'users') of the refactored client.
EquivCall ==
    /\ pc = "equiv"
    /\ fpc = "idle"
    /\ \E plan \in EquivScripts : fetchEndpoint("users", plan)
    /\ UNCHANGED runVars
    /\ UNCHANGED toolVars

NextEquiv ==
    \/ EquivCall
    \/ FetchRequest
    \/ FetchPage
    \/ FetchDelay
    \/ FetchCatch
    \/ FetchReturn
    \/ OrigCall
    \/ OrigRequest
    \/ OrigPage
    \/ OrigDelay
    \/ OrigCatch
    \/ OrigReturn

SpecEquiv == InitEquiv /\ [][NextEquiv]_vars

\* C30: the refactored fetchEndpoint and the original inline version are
\* equivalent: against the same server responses they issue the same
\* requests (page, per_page) after the same delays, and end with the same
\* returned records or the same error.
C30_RefactoringPreservesFetch ==
    /\ orig.fpc = "done" =>
          /\ orig.reqs = reqs
          /\ orig.slept = slept
          /\ orig.fret = fret
          /\ orig.nresp = nresp
    /\ orig.fpc \in {"loop", "await_get", "await_delay"} =>
          /\ \A i \in 1..Len(orig.reqs) : orig.reqs[i] = reqs[i]
          /\ Len(orig.reqs) <= Len(reqs)

C30_Witness ==
    /\ orig.fpc = "done"
    /\ Len(orig.reqs) = 2
    /\ Len(script) = 2
    /\ \E i \in 1..Len(script[2].data.fields) :
          script[2].data.fields[i].key = "links" /\ script[2].data.fields[i].next = "null"
    /\ orig.fret.kind = "value"
    /\ Len(orig.fret.data) = 2
    /\ fret = orig.fret
====
